---- MODULE Spec2Model ----
(***************************************************************************)
(* A model of the org parser of src/src/org/parser.ts.                     *)
(*                                                                         *)
(* The input text is a sequence of one-character strings.  The Reader is   *)
(* a record that every parsing function takes and returns, so the cursor,  *)
(* the visible window and the stack of narrows are explicit.  Every        *)
(* parsing function returns a record [r, v, err]: the reader it leaves,    *)
(* the value it returns, and the message of the Error it throws ("" when   *)
(* it returns normally).  A throw leaves the reader as it was at the       *)
(* throw: the source has no try/finally.                                   *)
(*                                                                         *)
(* Offsets are 0-based as in the source; the character at offset i of a    *)
(* text t is t[i + 1].                                                     *)
(***************************************************************************)
EXTENDS Integers, Sequences, FiniteSets, TLC

VARIABLES text, pc, rd, children, err, tree, call

vars == <<text, pc, rd, children, err, tree, call>>

\* ------------------------------------------------------------------ characters

SP == " "
TAB == "\t"
NL == "\n"
BACKSLASH == "\\"

Blank == {SP, TAB}

\* \s of the regular expressions and of String.prototype.trim, within the
\* characters the inputs are made of.
Whitespace == {SP, TAB, NL}

Digits == {"0", "1", "2", "3", "4", "5", "6", "7", "8", "9"}

Letters ==
  {"a", "b", "c", "d", "e", "f", "g", "h", "i", "j", "k", "l", "m", "n", "o",
   "p", "q", "r", "s", "t", "u", "v", "w", "x", "y", "z"}

Brackets == {"[", "]"}

Min(a, b) == IF a < b THEN a ELSE b

Max(a, b) == IF a < b THEN b ELSE a

MinOf(S) == CHOOSE x \in S : \A y \in S : x <= y

MaxOf(S) == CHOOSE x \in S : \A y \in S : y <= x

\* t.substring(a, b)
Sub(t, a, b) == SubSeq(t, a + 1, b)

\* s.trim().length === 0
IsBlankString(s) == \A i \in 1..Len(s) : s[i] \in Whitespace

\* The first offset in i..e at which the character of t is not in S (e when
\* there is none): the end of a greedy run [S]* that starts at i.
RECURSIVE Span(_, _, _, _)
Span(t, i, e, S) ==
  IF i < e /\ t[i + 1] \in S THEN Span(t, i + 1, e, S) ELSE i

\* The first offset in i..e at which the character of t is in S (e when
\* there is none): the end of a greedy run [^S]* that starts at i.
RECURSIVE SpanNot(_, _, _, _)
SpanNot(t, i, e, S) ==
  IF i < e /\ t[i + 1] \notin S THEN SpanNot(t, i + 1, e, S) ELSE i

\* The offsets of the slice [from, to) at which ^ matches under the m flag:
\* the start of the slice and the offset after each newline of the slice.
LineStarts(t, from, to) ==
  {p \in from..to : p = from \/ t[p] = NL}

\* $ under the m flag, at offset p of a slice that ends at e.
AtLineEnd(t, p, e) == p = e \/ t[p + 1] = NL

\* A regular expression that does not match.
NoMatch == [ok |-> FALSE, index |-> 0, len |-> 0]

\* ------------------------------------------------------------------ Reader

\* new Reader(text)
Reader(t) ==
  [text |-> t, offset |-> 0, left |-> 0, right |-> Len(t), narrows |-> <<>>]

offset(r) == r.offset

endOffset(r) == r.right

eof(r) == r.offset = r.right

peek(r, n) == Sub(r.text, r.offset, Min(r.offset + n, r.right))

rest(r) == Sub(r.text, r.offset, r.right)

\* The offset after the line at the cursor: after the next newline of the
\* window, or the end of the window.
lineEnd(r) ==
  LET nl == SpanNot(r.text, r.offset, r.right, {NL})
  IN  IF nl < r.right THEN nl + 1 ELSE nl

line(r) == Sub(r.text, r.offset, lineEnd(r))

\* advance(n) for a number of bytes (or the length of a string)
advance(r, n) == [r EXCEPT !.offset = @ + n]

\* advance(match): by index + length of a match, and not at all for a miss
advanceMatch(r, m) == IF m.ok THEN advance(r, m.index + m.len) ELSE r

resetOffset(r, abs) == [r EXCEPT !.offset = abs]

substring(r, a, b) == Sub(r.text, a, b)

narrow(r, begin, end) ==
  [r EXCEPT
     !.narrows = Append(@, [prevLeft |-> r.left, prevRight |-> r.right,
                            prevOffset |-> r.offset]),
     !.left = begin, !.right = end, !.offset = begin]

widen(r, preservePosition) ==
  LET top == r.narrows[Len(r.narrows)]
  IN  [r EXCEPT
         !.narrows = SubSeq(@, 1, Len(@) - 1),
         !.left = top.prevLeft, !.right = top.prevRight,
         !.offset = IF preservePosition THEN @ ELSE top.prevOffset]

\* ------------------------------------------------------------------ results

Ok(r, v) == [r |-> r, v |-> v, err |-> ""]

Throw(r, msg) == [r |-> r, v |-> <<>>, err |-> msg]

\* An optional value: undefined, or a defined value.
Undefined == <<>>

Some(v) == <<v>>

\* ------------------------------------------------------------------ objects

\* u('text', { value }); begin and end are the source span of the value, which
\* the source does not store.
TextNode(r, n) ==
  [type |-> "text", value |-> peek(r, n), begin |-> r.offset, end |-> r.offset + n]

\* restriction(type) of parser/utils: the object kinds allowed in an element.
restriction(type) == [kind |-> "set", elems |-> {"link", "text"}]

\* The argument of parseObjects('link') in parseLink: a string, not a Set.
StringRestriction == [kind |-> "string", elems |-> {}]

\* linkPlainRe() of parser/utils at offset p of a slice that ends at e: a
\* scheme, a colon and a path.
linkPlainAt(t, p, e) ==
  /\ p < e
  /\ t[p + 1] \in Letters
  /\ LET q == Span(t, p, e, Letters)
     IN  /\ q + 1 < e
         /\ t[q + 1] = ":"
         /\ t[q + 2] \notin Whitespace \cup Brackets

\* objectRegexp of parseObjects: "[[" or a plain link, leftmost in the rest.
objectRegexp(r) ==
  LET t == r.text
      S == {p \in r.offset..(r.right - 1) :
              \/ t[p + 1] = "[" /\ p + 1 < r.right /\ t[p + 2] = "["
              \/ linkPlainAt(t, p, r.right)}
  IN  IF S = {} THEN NoMatch
      ELSE [ok |-> TRUE, index |-> MinOf(S) - r.offset, len |-> 0]

\* The offsets at which the group <link> of linkBracketRe can end when it
\* starts at s: one or more characters, a bracket only after a backslash.
linkGroupEnds(t, s, e) ==
  {q \in (s + 1)..e :
     \A z \in s..(q - 1) :
        t[z + 1] \in Brackets => z > s /\ t[z] = BACKSLASH}

\* The length of the group <text> of linkBracketRe, "[" being at offset b:
\* the shortest run of one or more characters of one line that "]]" follows;
\* 0 when (\[(?<text>.+?)\])? does not take part in a match.
linkTextLen(t, b, e) ==
  LET K == {k \in 1..(e - b) :
              /\ b + 1 + k + 1 < e
              /\ \A i \in (b + 1)..(b + k) : t[i + 1] # NL
              /\ t[b + 1 + k + 1] = "]"
              /\ t[b + 1 + k + 2] = "]"}
  IN  IF b < e /\ t[b + 1] = "[" /\ K # {} THEN MinOf(K) ELSE 0

\* linkBracketRe at offset p exactly.  link and text are the lengths of the
\* groups, len the length of the whole match.
linkBracketAt(t, p, e) ==
  IF ~(p + 1 < e /\ t[p + 1] = "[" /\ t[p + 2] = "[") THEN NoMatch
  ELSE
    LET withText == {q \in linkGroupEnds(t, p + 2, e) :
                       q < e /\ t[q + 1] = "]" /\ linkTextLen(t, q + 1, e) > 0}
        noText == {q \in linkGroupEnds(t, p + 2, e) :
                     q + 1 < e /\ t[q + 1] = "]" /\ t[q + 2] = "]"}
    IN  IF withText \cup noText = {} THEN NoMatch
        ELSE
          LET q == MaxOf(withText \cup noText)
              k == IF q \in withText THEN linkTextLen(t, q + 1, e) ELSE 0
          IN  [ok |-> TRUE, index |-> 0,
               len |-> IF k > 0 THEN (q + 1 + 1 + k + 2) - p ELSE (q + 2) - p,
               link |-> q - (p + 2), linkAt |-> p + 2, text |-> k]

\* this.r.match(linkBracketRe): the expression is not anchored, so the
\* leftmost match in the rest is the match.
linkBracketRe(r) ==
  LET S == {p \in r.offset..r.right : linkBracketAt(r.text, p, r.right).ok}
  IN  IF S = {} THEN NoMatch
      ELSE [linkBracketAt(r.text, MinOf(S), r.right) EXCEPT
              !.index = MinOf(S) - r.offset]

\* this.r.match(/^(\S+):\S+/)
plainLinkRe(r) ==
  LET t == r.text
      w == SpanNot(t, r.offset, r.right, Whitespace)
      C == {i \in (r.offset + 1)..(w - 2) : t[i + 1] = ":"}
  IN  IF C = {} THEN NoMatch
      ELSE [ok |-> TRUE, index |-> 0, len |-> w - r.offset,
            type |-> Sub(t, r.offset, MaxOf(C))]

RECURSIVE parseObjectsLoop(_, _, _, _)
RECURSIVE parseLink(_)

\* restriction.has('link') of parseObject followed by the call it guards.
\* A string has no method has: the call throws a TypeError.
parseObjectIfLink(r, restr) ==
  IF restr.kind = "string"
  THEN Throw(r, "TypeError: restriction.has is not a function")
  ELSE IF "link" \in restr.elems THEN parseLink(r) ELSE Ok(r, Undefined)

parseObject(r, restr) ==
  LET c == peek(r, 2)
  IN  IF Len(c) > 0 /\ c[1] = "["
      THEN IF Len(c) > 1 /\ c[2] = "["
           THEN parseObjectIfLink(r, restr)
           ELSE Ok(r, Undefined)
      ELSE parseObjectIfLink(r, restr)

\* The rest of parseObjects after the loop: the remaining text, unless blank.
parseObjectsRest(r, objects) ==
  LET txt == rest(r)
  IN  Ok(advance(r, Len(txt)),
         IF ~IsBlankString(txt)
         THEN Append(objects, TextNode(r, Len(txt)))
         ELSE objects)

\* The end of an iteration of parseObjects, o being the result of
\* parseObject: the object, if any, is pushed and the loop goes on.
parseObjectsPush(o, restr, objects, prevOffset) ==
  IF o.err # "" THEN o
  ELSE parseObjectsLoop(
         o.r, restr,
         IF o.v # Undefined THEN Append(objects, o.v[1]) ELSE objects,
         prevOffset)

\* One iteration of the while (true) of parseObjects.
parseObjectsLoop(r, restr, objects, prevOffset) ==
  IF prevOffset = offset(r) THEN Throw(r, "no progress")
  ELSE
    LET m == objectRegexp(r)
    IN  IF ~m.ok THEN parseObjectsRest(r, objects)
        ELSE
          LET r1 == IF m.index # 0 THEN advance(r, m.index) ELSE r
              objs1 == IF m.index # 0
                       THEN Append(objects, TextNode(r, m.index))
                       ELSE objects
          IN  parseObjectsPush(parseObject(r1, restr), restr, objs1, offset(r))

parseObjects(r, restr) == parseObjectsLoop(r, restr, <<>>, -1)

\* The bracket case of parseLink after const m = this.r.match(linkBracketRe);
\* begin and end are the source span of the link, from the start of the match
\* to the cursor after it, which the source does not store.
parseLinkBracketMatch(r, m) ==
  LET initialOffset == offset(r)
      r1 == advanceMatch(r, m)
  IN  IF ~m.ok THEN Ok(r1, Undefined)
      ELSE
        LET contentStart == initialOffset + 2 + m.link + 2
            contentEnd == contentStart + m.text
            sub == IF m.text > 0
                   THEN parseObjects(narrow(r1, contentStart, contentEnd),
                                     StringRestriction)
                   ELSE Ok(r1, <<>>)
            r2 == IF m.text > 0 THEN widen(sub.r, FALSE) ELSE r1
        IN  IF sub.err # "" THEN sub
            ELSE Ok(r2, Some([type |-> "link",
                              rawLink |-> Sub(r.text, m.linkAt, m.linkAt + m.link),
                              children |-> sub.v,
                              begin |-> initialOffset + m.index,
                              end |-> offset(r2)]))

parseLinkBracket(r) == parseLinkBracketMatch(r, linkBracketRe(r))

\* The plain case of parseLink.
parseLinkPlain(r) ==
  LET m == plainLinkRe(r)
      r1 == advanceMatch(r, m)
  IN  IF ~m.ok THEN Ok(r1, Undefined)
      ELSE Ok(r1, Some([type |-> "link",
                        rawLink |-> Sub(r.text, r.offset, r.offset + m.len),
                        children |-> <<>>,
                        begin |-> offset(r), end |-> offset(r1)]))

parseLink(r) ==
  IF peek(r, 1) = <<"[">> THEN parseLinkBracket(r) ELSE parseLinkPlain(r)

\* ------------------------------------------------------------------ patterns

\* A run of one or more stars at offset p, followed by a character of set C.
starsThen(t, p, e, C) ==
  LET s == Span(t, p, e, {"*"})
  IN  s > p /\ s < e /\ t[s + 1] \in C

\* The leftmost of the offsets S as a match of the rest of r.
leftmost(r, S) ==
  IF S = {} THEN NoMatch
  ELSE [ok |-> TRUE, index |-> MinOf(S) - r.offset, len |-> 0]

\* this.r.match(/^\*+[ \t]/m) of parseElement
nextHeadingRe(r) ==
  leftmost(r, {p \in LineStarts(r.text, r.offset, r.right) :
                 starsThen(r.text, p, r.right, {SP, TAB})})

\* this.r.match(/^\*+[ \\t]/m) of parseSection: in a regular expression
\* literal the class [ \\t] is a space, a backslash or the letter t.
sectionEndRe(r) ==
  leftmost(r, {p \in LineStarts(r.text, r.offset, r.right) :
                 starsThen(r.text, p, r.right, {SP, BACKSLASH, "t"})})

\* this.r.match(new RegExp(`^\\*{1,${level}}[ \\t]`, 'm')) of parseHeadline
endOfSubtreeRe(r, level) ==
  leftmost(r, {p \in LineStarts(r.text, r.offset, r.right) :
                 /\ starsThen(r.text, p, r.right, {SP, TAB})
                 /\ Span(r.text, p, r.right, {"*"}) - p <= level})

\* The offset after the bullet that starts at offset i, or -1: one of - + *,
\* or a number followed by . or ).
bulletEnd(t, i, e) ==
  IF i < e /\ t[i + 1] \in {"-", "+", "*"} THEN i + 1
  ELSE LET d == Span(t, i, e, Digits)
       IN  IF d > i /\ d < e /\ t[d + 1] \in {".", ")"} THEN d + 1 ELSE -1

\* itemRe() of parser/utils at offset p exactly: indentation, a bullet, and
\* a blank or the end of the line.
itemReAt(t, p, e) ==
  LET i == Span(t, p, e, Blank)
      b == bulletEnd(t, i, e)
  IN  IF b >= 0 /\ (AtLineEnd(t, b, e) \/ t[b + 1] \in Blank)
      THEN [ok |-> TRUE, index |-> 0, len |-> (b - p) + (IF AtLineEnd(t, b, e) THEN 0 ELSE 1),
            indent |-> i - p]
      ELSE NoMatch

itemRe(r) == itemReAt(r.text, r.offset, r.right)

\* The offset after the checkbox of fullItemRe that starts at offset w, or w
\* when there is none: [ ], [X], [x] or [-], then blanks or the end of the
\* line.
checkboxEnd(t, w, e) ==
  IF /\ w + 2 < e
     /\ t[w + 1] = "["
     /\ t[w + 2] \in {SP, "X", "x", "-"}
     /\ t[w + 3] = "]"
     /\ (AtLineEnd(t, w + 3, e) \/ t[w + 4] \in Blank)
  THEN Span(t, w + 3, e, Blank)
  ELSE w

\* fullItemRe() of parser/utils at the cursor: the item pattern with its
\* groups.  The bullet takes the blanks that follow it.  The counter and the
\* tag of an item, whose syntax the specification does not give, are not
\* modelled.
fullItemRe(r) ==
  LET t == r.text
      m == itemRe(r)
      i == r.offset + (IF m.ok THEN m.indent ELSE 0)
      b == bulletEnd(t, i, r.right)
      w == Span(t, b, r.right, Blank)
      c == checkboxEnd(t, w, r.right)
  IN  IF ~m.ok THEN NoMatch
      ELSE [ok |-> TRUE, index |-> 0, len |-> c - r.offset, indent |-> m.indent,
            bullet |-> Sub(t, i, w),
            checkbox |-> IF c > w THEN Sub(t, w, w + 3) ELSE <<>>]

\* listEndRe() of parser/utils matching at index 0: two blank lines.
listEndAtCursor(r) ==
  LET t == r.text
      w1 == Span(t, r.offset, r.right, Blank)
      w2 == Span(t, w1 + 1, r.right, Blank)
  IN  /\ w1 < r.right /\ t[w1 + 1] = NL
      /\ w2 < r.right /\ t[w2 + 1] = NL

\* this.r.match(/^[ \t]*$/) of parseListStructure: without the m flag $ is
\* the end of the rest, not the end of a line.
emptyLineRe(r) == Span(r.text, r.offset, r.right, Blank) = r.right

\* this.r.match(/^[ \t]*/)![0].length of parseListStructure
indentRe(r) == Span(r.text, r.offset, r.right, Blank) - r.offset

\* The marker that begins a block.
BlockBegin == <<"#", "+", "b", "e", "g", "i", "n", "_">>

\* A block-begin line at offset p of a slice that ends at e: blanks and the
\* marker.
blockBeginAt(t, p, e) ==
  LET i == Span(t, p, e, Blank)
  IN  i + Len(BlockBegin) <= e /\ Sub(t, i, i + Len(BlockBegin)) = BlockBegin

\* paragraphSeparateRe() of parser/utils: the leftmost line of the rest that
\* is blank, a heading, the start of an item or the begin of a block.  The
\* other separators of the pattern (drawer lines and the like) are not
\* modelled.
paragraphSeparateRe(r) ==
  leftmost(r, {p \in LineStarts(r.text, r.offset, r.right) :
                 \/ AtLineEnd(r.text, Span(r.text, p, r.right, Blank), r.right)
                 \/ starsThen(r.text, p, r.right, {SP})
                 \/ itemReAt(r.text, p, r.right).ok
                 \/ blockBeginAt(r.text, p, r.right)})

\* greaterElements of parser/utils
greaterElements == {"org-data", "headline", "section", "plain-list", "item"}

\* ------------------------------------------------------------------ elements

\* parseEmptyLines with parseMulti: lines are consumed while they are blank
\* and not the empty string.
RECURSIVE parseEmptyLines(_)
parseEmptyLines(r) ==
  LET l == line(r)
  IN  IF Len(l) > 0 /\ IsBlankString(l)
      THEN parseEmptyLines(advance(r, Len(l)))
      ELSE r

atHeading(r) == starsThen(r.text, r.offset, r.right, {SP})

\* nextMode with the sibling rule of the mode item dropped: after an item
\* the mode is null.
nextMode_itemDropped(mode, type, parent) ==
  IF parent
  THEN IF type = "headline" THEN "section"
       ELSE IF mode = "first-section" /\ type = "section" THEN "top-comment"
       ELSE IF type = "inlinetask" THEN "planning"
       ELSE IF type = "plain-list" THEN "item"
       ELSE IF type = "property-drawer" THEN "node-property"
       ELSE IF type = "section" THEN "planning"
       ELSE IF type = "table" THEN "table-row"
       ELSE "null"
  ELSE IF mode = "node-property" THEN "node-property"
       ELSE IF mode = "planning" /\ type = "planning" THEN "property-drawer"
       ELSE IF mode = "table-row" THEN "table-row"
       ELSE IF mode = "top-comment" /\ type = "comment" THEN "property-drawer"
       ELSE "null"

\* nextMode with a sibling rule that keeps the mode first-section: the
\* elements after the first are parsed as first sections too.
nextMode_firstSectionKept(mode, type, parent) ==
  IF parent
  THEN IF type = "headline" THEN "section"
       ELSE IF mode = "first-section" /\ type = "section" THEN "top-comment"
       ELSE IF type = "inlinetask" THEN "planning"
       ELSE IF type = "plain-list" THEN "item"
       ELSE IF type = "property-drawer" THEN "node-property"
       ELSE IF type = "section" THEN "planning"
       ELSE IF type = "table" THEN "table-row"
       ELSE "null"
  ELSE IF mode = "item" THEN "item"
       ELSE IF mode = "first-section" THEN "first-section"
       ELSE IF mode = "node-property" THEN "node-property"
       ELSE IF mode = "planning" /\ type = "planning" THEN "property-drawer"
       ELSE IF mode = "table-row" THEN "table-row"
       ELSE IF mode = "top-comment" /\ type = "comment" THEN "property-drawer"
       ELSE "null"

\* The tests are made in the order of the source: the first that holds
\* gives the mode.
nextMode(mode, type, parent) ==
  IF parent
  THEN IF type = "headline" THEN "section"
       ELSE IF mode = "first-section" /\ type = "section" THEN "top-comment"
       ELSE IF type = "inlinetask" THEN "planning"
       ELSE IF type = "plain-list" THEN "item"
       ELSE IF type = "property-drawer" THEN "node-property"
       ELSE IF type = "section" THEN "planning"
       ELSE IF type = "table" THEN "table-row"
       ELSE "null"
  ELSE IF mode = "item" THEN "item"
       ELSE IF mode = "node-property" THEN "node-property"
       ELSE IF mode = "planning" /\ type = "planning" THEN "property-drawer"
       ELSE IF mode = "table-row" THEN "table-row"
       ELSE IF mode = "top-comment" /\ type = "comment" THEN "property-drawer"
       ELSE "null"

\* parseHeadline with the contents beginning at the stars of the headline
\* and not after its line: the contents hold the headline itself.
parseHeadlineContents_fromStars(title, level, rawValue, titleStart, titleEnd) ==
  LET r3 == widen(title.r, FALSE)
      r4 == parseEmptyLines(advance(r3, Len(line(r3))))
      contentsBegin == titleStart - level - 1
      endOfSubtree == endOfSubtreeRe(r4, level)
      contentsEnd == IF endOfSubtree.ok
                     THEN offset(r4) + endOfSubtree.index
                     ELSE endOffset(r4)
  IN  IF title.err # "" THEN title
      ELSE Ok(resetOffset(r4, contentsEnd),
              [type |-> "headline", level |-> level, rawValue |-> rawValue,
               title |-> title.v, titleBegin |-> titleStart,
               titleEnd |-> titleEnd, contentsBegin |-> contentsBegin,
               contentsEnd |-> contentsEnd, children |-> <<>>])

\* parseHeadline after the title, title being the result of parseObjects:
\* the rest of the line, the empty lines and the end of the subtree.
\* titleBegin and titleEnd are the range of the title, which the source
\* does not store.
parseHeadlineContents(title, level, rawValue, titleStart, titleEnd) ==
  LET r3 == widen(title.r, FALSE)
      r4 == parseEmptyLines(advance(r3, Len(line(r3))))
      contentsBegin == offset(r4)
      endOfSubtree == endOfSubtreeRe(r4, level)
      contentsEnd == IF endOfSubtree.ok
                     THEN contentsBegin + endOfSubtree.index
                     ELSE endOffset(r4)
  IN  IF title.err # "" THEN title
      ELSE Ok(resetOffset(r4, contentsEnd),
              [type |-> "headline", level |-> level, rawValue |-> rawValue,
               title |-> title.v, titleBegin |-> titleStart,
               titleEnd |-> titleEnd, contentsBegin |-> contentsBegin,
               contentsEnd |-> contentsEnd, children |-> <<>>])

parseHeadline(r) ==
  LET t == r.text
      s == Span(t, r.offset, r.right, {"*"})
      stars == Span(t, s, r.right, Blank)
      level == s - r.offset
      r1 == advance(r, stars - r.offset)
      titleStart == offset(r1)
      titleEnd == SpanNot(t, titleStart, r1.right, {NL})
      rawValue == substring(r1, titleStart, titleEnd)
      r2 == advance(r1, titleEnd - titleStart)
  IN  parseHeadlineContents(
        parseObjects(narrow(r2, titleStart, titleEnd), restriction("headline")),
        level, rawValue, titleStart, titleEnd)

parseSection(r) ==
  LET begin == offset(r)
      m == sectionEndRe(r)
      end == IF m.ok THEN begin + m.index ELSE endOffset(r)
  IN  Ok(resetOffset(r, end),
         [type |-> "section", contentsBegin |-> begin, contentsEnd |-> end,
          children |-> <<>>])

\* parseParagraph with the two ends of the contents range stored in each
\* other's field.
parseParagraph_swapped(r) ==
  LET contentsBegin == offset(r)
      next == paragraphSeparateRe(r)
      contentsEnd == IF next.ok THEN contentsBegin + next.index
                     ELSE endOffset(r)
  IN  Ok(parseEmptyLines(resetOffset(r, contentsEnd)),
         [type |-> "paragraph", contentsBegin |-> contentsEnd,
          contentsEnd |-> contentsBegin, children |-> <<>>])

parseParagraph(r) ==
  LET contentsBegin == offset(r)
      next == paragraphSeparateRe(r)
      contentsEnd == IF next.ok THEN contentsBegin + next.index
                     ELSE endOffset(r)
  IN  Ok(parseEmptyLines(resetOffset(r, contentsEnd)),
         [type |-> "paragraph", contentsBegin |-> contentsBegin,
          contentsEnd |-> contentsEnd, children |-> <<>>])

\* ------------------------------------------------------------------ lists

\* structure.find((x) => x.begin === begin): the indexes of the entries found
findBegin(structure, begin) ==
  {i \in 1..Len(structure) : structure[i].begin = begin}

\* The structure vector without the sort: the descriptors in the order in
\* which the items were closed.
sortByBegin_unsorted(struct) == struct

\* struct.sort((a, b) => a.begin - b.begin): insertion of x into a sorted
\* sequence after the entries that do not begin later (the sort is stable).
RECURSIVE sortByBegin(_)
sortByBegin(struct) ==
  IF Len(struct) <= 1 THEN struct
  ELSE
    LET x == struct[Len(struct)]
        sorted == sortByBegin(SubSeq(struct, 1, Len(struct) - 1))
        k == Cardinality({i \in 1..Len(sorted) : sorted[i].begin <= x.begin})
    IN  SubSeq(sorted, 1, k) \o <<x>> \o SubSeq(sorted, k + 1, Len(sorted))

\* closeItems with > for >=: an open item of the same indent stays open.
RECURSIVE closeItems_strict(_, _, _, _)
closeItems_strict(items, struct, indent, end) ==
  IF Len(items) > 0 /\ items[Len(items)].indent > indent
  THEN closeItems_strict(SubSeq(items, 1, Len(items) - 1),
                         Append(struct, [items[Len(items)] EXCEPT !.end = end]),
                         indent, end)
  ELSE [items |-> items, struct |-> struct]

\* while (items.length && items[items.length - 1].indent >= indent): the
\* open items that end at offset end, popped and pushed onto struct.
RECURSIVE closeItems(_, _, _, _)
closeItems(items, struct, indent, end) ==
  IF Len(items) > 0 /\ items[Len(items)].indent >= indent
  THEN closeItems(SubSeq(items, 1, Len(items) - 1),
                  Append(struct, [items[Len(items)] EXCEPT !.end = end]),
                  indent, end)
  ELSE [items |-> items, struct |-> struct]

\* The end of parseListStructure, after its loop.
parseListStructureEnd(r, items, struct) ==
  LET r1 == parseEmptyLines(r)
      end == offset(r1)
      closed == [i \in 1..Len(items) |-> [items[i] EXCEPT !.end = end]]
  IN  Ok(r1, sortByBegin(struct \o closed))

\* One iteration of the while (true) of parseListStructure.
RECURSIVE parseListStructureLoop(_, _, _)
parseListStructureLoop(r, items, struct) ==
  IF eof(r) \/ listEndAtCursor(r) THEN parseListStructureEnd(r, items, struct)
  ELSE
    LET m == itemRe(r)
    IN  IF m.ok
        THEN
          LET c == closeItems(items, struct, m.indent, offset(r))
              fullM == fullItemRe(r)
              item == [begin |-> offset(r), indent |-> m.indent,
                       bullet |-> fullM.bullet, end |-> offset(r)]
          IN  IF ~fullM.ok THEN Throw(r, "fullItemRe didn't match")
              ELSE parseListStructureLoop(advance(r, Len(line(r))),
                                          Append(c.items, item), c.struct)
        ELSE IF emptyLineRe(r)
        THEN parseListStructureLoop(advance(r, Len(line(r))), items, struct)
        ELSE
          LET c == closeItems(items, struct, indentRe(r), offset(r))
          IN  IF Len(c.items) = 0
              THEN parseListStructureEnd(r, c.items, c.struct)
              ELSE parseListStructureLoop(advance(r, Len(line(r))),
                                          c.items, c.struct)

parseListStructure(r) == parseListStructureLoop(r, <<>>, <<>>)

\* The while (true) of parseList without the test of the indent: the chain
\* goes on with an entry of any indent.
RECURSIVE listEnd_anyIndent(_, _, _)
listEnd_anyIndent(structure, indent, pos) ==
  LET N == {i \in 1..Len(structure) : structure[i].begin = pos}
  IN  IF N = {} THEN pos
      ELSE listEnd_anyIndent(structure, indent, structure[MinOf(N)].end)

\* The while (true) of parseList: from pos to the end of the last entry of
\* the chain of entries of this indent.
RECURSIVE listEnd(_, _, _)
listEnd(structure, indent, pos) ==
  LET N == {i \in 1..Len(structure) :
              structure[i].begin = pos /\ structure[i].indent = indent}
  IN  IF N = {} THEN pos
      ELSE listEnd(structure, indent, structure[MinOf(N)].end)

\* parseList without the loop that hops over the following items: the list
\* ends with its first item.
parseList_noHop(r, structure) ==
  LET contentsBegin == offset(r)
      F == findBegin(structure, contentsBegin)
      item == structure[MinOf(F)]
      contentsEnd == item.end
  IN  IF F = {} THEN Throw(r, "parseList: cannot find item")
      ELSE Ok(resetOffset(r, contentsEnd),
              [type |-> "plain-list", indent |-> item.indent,
               contentsBegin |-> contentsBegin, contentsEnd |-> contentsEnd,
               structure |-> structure, children |-> <<>>])

parseList(r, structure) ==
  LET contentsBegin == offset(r)
      F == findBegin(structure, contentsBegin)
      item == structure[MinOf(F)]
      contentsEnd == listEnd(structure, item.indent, item.end)
  IN  IF F = {} THEN Throw(r, "parseList: cannot find item")
      ELSE Ok(resetOffset(r, contentsEnd),
              [type |-> "plain-list", indent |-> item.indent,
               contentsBegin |-> contentsBegin, contentsEnd |-> contentsEnd,
               structure |-> structure, children |-> <<>>])

\* The checkbox of parseItem.
checkboxOf(c) ==
  CASE c = <<"[", SP, "]">> -> "off"
    [] c = <<"[", "X", "]">> \/ c = <<"[", "x", "]">> -> "on"
    [] c = <<"[", "-", "]">> -> "trans"
    [] OTHER -> "null"

parseItem(r, structure) ==
  LET off == offset(r)
      m == fullItemRe(r)
      r1 == advanceMatch(r, m)
      F == findBegin(structure, off)
      item == structure[MinOf(F)]
      contentsBegin == offset(r1)
      contentsEnd == item.end
  IN  IF ~m.ok THEN Throw(r1, "parseItem: fullItemRe failed")
      ELSE IF F = {}
      THEN Throw(r1, "TypeError: Cannot read property 'end' of undefined")
      ELSE Ok(resetOffset(r1, contentsEnd),
              [type |-> "item", indent |-> item.indent, bullet |-> m.bullet,
               checkbox |-> checkboxOf(m.checkbox),
               contentsBegin |-> contentsBegin, contentsEnd |-> contentsEnd,
               children |-> <<>>])

\* ------------------------------------------------------------------ driver

\* The first-section case of parseElement.
parseFirstSection(r) ==
  LET nextHeading == nextHeadingRe(r)
      r1 == narrow(r, offset(r),
                   IF nextHeading.ok THEN offset(r) + nextHeading.index
                   ELSE endOffset(r))
      result == parseSection(r1)
  IN  Ok(widen(result.r, TRUE), result.v)

\* The plain-list case of parseElement without this.r.resetOffset(offset):
\* parseList starts where the scan has left the cursor.
parseElementList_noReset(r, structure) ==
  IF structure = Undefined
  THEN LET scanned == parseListStructure(r)
       IN  IF scanned.err # "" THEN scanned
           ELSE parseList(scanned.r, scanned.v)
  ELSE parseList(r, structure[1])

\* The plain-list case of parseElement.
parseElementList(r, structure) ==
  IF structure = Undefined
  THEN LET scanned == parseListStructure(r)
       IN  IF scanned.err # "" THEN scanned
           ELSE parseList(resetOffset(scanned.r, offset(r)), scanned.v)
  ELSE parseList(r, structure[1])

parseElement(r, mode, structure) ==
  IF mode = "item" THEN parseItem(r, structure[1])
  ELSE IF atHeading(r) THEN parseHeadline(r)
  ELSE IF mode = "section" THEN parseSection(r)
  ELSE IF mode = "first-section" THEN parseFirstSection(r)
  ELSE IF itemRe(r).ok THEN parseElementList(r, structure)
  ELSE parseParagraph(r)

RECURSIVE parseElementsLoop(_, _, _, _, _)

parseElements(r, mode, structure) ==
  parseElementsLoop(r, mode, structure, <<>>, -1)

\* The end of the descent with this.r.widen(true): the cursor stays where
\* the parse of the contents has left it.
appendChildren_preserve(element, sub) ==
  IF sub.err # "" THEN sub
  ELSE Ok(widen(sub.r, TRUE), [element EXCEPT !.children = sub.v])

\* The end of the descent, sub being the result of the recursive parse:
\* widen, and the element with its children.
appendChildren(element, sub) ==
  IF sub.err # "" THEN sub
  ELSE Ok(widen(sub.r, FALSE), [element EXCEPT !.children = sub.v])

\* The descent of parseElements into the contents of an element: narrow, the
\* recursive parse, widen.  The value is the element with its children.
parseContents(r, element, mode, structure) ==
  IF "contentsBegin" \notin DOMAIN element THEN Ok(r, element)
  ELSE
    LET narrowed == narrow(r, element.contentsBegin, element.contentsEnd)
    IN  appendChildren(
          element,
          IF element.type \in greaterElements
          THEN parseElements(
                 narrowed, nextMode(mode, element.type, TRUE),
                 IF structure # Undefined THEN structure
                 ELSE IF "structure" \in DOMAIN element
                      THEN Some(element.structure)
                      ELSE Undefined)
          ELSE parseObjects(narrowed, restriction(element.type)))

\* The end of an iteration of parseElements, c being the result of the
\* descent into the element of type type: the element is pushed, the mode
\* is the next mode and the loop goes on.
parseElementsPush(c, type, mode, structure, elements, prevOffset) ==
  IF c.err # "" THEN c
  ELSE parseElementsLoop(c.r, nextMode(mode, type, FALSE), structure,
                         Append(elements, c.v), prevOffset)

\* An iteration of parseElements after parseElement, e being its result.
parseElementsDescend(e, mode, structure, elements, prevOffset) ==
  IF e.err # "" THEN e
  ELSE parseElementsPush(parseContents(e.r, e.v, mode, structure), e.v.type,
                         mode, structure, elements, prevOffset)

\* One iteration of the while (!this.r.eof()) of parseElements.
parseElementsLoop(r, mode, structure, elements, prevOffset) ==
  IF eof(r) THEN Ok(r, elements)
  ELSE IF offset(r) = prevOffset THEN Throw(r, "no progress (elements)")
  ELSE parseElementsDescend(parseElement(r, mode, structure), mode, structure,
                            elements, offset(r))

\* ------------------------------------------------------------------ parse

\* The inputs of parse: the texts made of at most MaxTokens tokens, each a
\* short piece of syntax.  Every specification draws from its own tokens, so
\* that a few tokens reach the syntax its claims are about.
MaxTokens == 4

RECURSIVE Flatten(_)
Flatten(ss) == IF ss = <<>> THEN <<>> ELSE Head(ss) \o Flatten(Tail(ss))

TextsOf(Tokens) ==
  {Flatten(ts) : ts \in UNION {[1..k -> Tokens] : k \in 0..MaxTokens}}

\* Headings, sections and paragraphs.
OutlineTokens ==
  {<<"*", SP>>, <<"*">>, <<TAB>>, <<"t">>, <<NL>>, <<"-", SP>>}

\* Plain lists.
ListTokens ==
  {<<"-", SP, "a">>, <<SP, SP, "-", SP, "a">>, <<NL>>, <<NL, NL>>, <<SP>>,
   <<"-", SP>>, <<"a">>}

\* Links and text.
LinkTokens ==
  {<<"[", "[">>, <<"]", "]">>, <<"]", "[">>, <<"a">>, <<SP>>, <<":">>}

\* Bracket links without blanks.
BracketTokens ==
  {<<"[", "[">>, <<"a", "]", "]">>, <<"]", "[">>, <<"a">>, <<":">>}

\* Headings, lists and links together.
MixedTokens ==
  {<<"*", SP, "a", NL>>, <<"*", "*", SP>>, <<"-", SP, "a", NL>>,
   <<SP, SP, "-", SP>>, <<"[", "[", "a", "]", "[", "b", "]", "]">>,
   <<"a", ":", "b", SP>>, <<NL>>}

\* Item lines at the indents 0, 1 and 2, and a line of text.
NestedTokens ==
  {<<"-", SP, "a", NL>>, <<SP, "-", SP, "a", NL>>,
   <<SP, SP, "-", SP, "a", NL>>, <<"a", NL>>}

\* Bracket links with a description.
DescriptionTokens ==
  {<<"[", "[", "a", "]", "[">>, <<"b", ":", "c">>, <<"b">>, <<"]", "]">>,
   <<"[", "[">>, <<SP>>}

\* Paragraphs and the lines that separate them.
ParagraphTokens ==
  {<<"a">>, <<NL>>, <<SP>>, BlockBegin, <<"-", SP>>, <<"*", SP>>}

InitWith(Texts) ==
  /\ text \in Texts
  /\ pc = "start"
  /\ rd = Reader(text)
  /\ children = <<>>
  /\ err = ""
  /\ tree = <<>>
  /\ call = <<>>

Init == InitWith(TextsOf(OutlineTokens))

InitLists == InitWith(TextsOf(ListTokens))

InitLinks == InitWith(TextsOf(LinkTokens))

InitBrackets == InitWith(TextsOf(BracketTokens))

InitNested == InitWith(TextsOf(NestedTokens))

InitDescriptions == InitWith(TextsOf(DescriptionTokens))

InitParagraphs == InitWith(TextsOf(ParagraphTokens))

InitAll ==
  InitWith(TextsOf(OutlineTokens) \cup TextsOf(ListTokens)
             \cup TextsOf(LinkTokens) \cup TextsOf(MixedTokens))

\* parse(): this.parseEmptyLines()
ParseEmptyLines ==
  /\ pc = "start"
  /\ rd' = parseEmptyLines(rd)
  /\ pc' = "elements"
  /\ UNCHANGED <<text, children, err, tree, call>>

\* parse(): const children = this.parseElements('first-section'), which
\* returns the children or throws
ParseElements ==
  /\ pc = "elements"
  /\ \E res \in {parseElements(rd, "first-section", Undefined)} :
       /\ rd' = res.r
       /\ children' = res.v
       /\ err' = res.err
       /\ pc' = IF res.err = "" THEN "wrap" ELSE "thrown"
  /\ UNCHANGED <<text, tree, call>>

\* parse(): return u('org-data', {...}, children)
ReturnOrgData ==
  /\ pc = "wrap"
  /\ tree' = <<[type |-> "org-data", contentsBegin |-> 0,
                contentsEnd |-> endOffset(rd), children |-> children]>>
  /\ pc' = "returned"
  /\ UNCHANGED <<text, rd, children, err, call>>

Next == ParseEmptyLines \/ ParseElements \/ ReturnOrgData

Spec == Init /\ [][Next]_vars

SpecLists == InitLists /\ [][Next]_vars

SpecLinks == InitLinks /\ [][Next]_vars

SpecBrackets == InitBrackets /\ [][Next]_vars

SpecNested == InitNested /\ [][Next]_vars

SpecDescriptions == InitDescriptions /\ [][Next]_vars

SpecParagraphs == InitParagraphs /\ [][Next]_vars

SpecAll == InitAll /\ [][Next]_vars

\* ------------------------------------------------------------------ modes

\* ParseMode, null being "null"
ParseModes ==
  {"first-section", "item", "node-property", "planning", "property-drawer",
   "section", "table-row", "top-comment", "null"}

\* The types of the nodes that nextMode tests, and two that it does not.
NodeTypes ==
  {"headline", "section", "inlinetask", "plain-list", "property-drawer",
   "table", "planning", "comment", "paragraph", "item"}

\* A call of nextMode that is about to be made: no text is parsed.
InitModes ==
  /\ text = <<>>
  /\ pc = "nextMode"
  /\ rd = Reader(<<>>)
  /\ children = <<>>
  /\ err = ""
  /\ tree = <<>>
  /\ call \in [mode : ParseModes, type : NodeTypes, parent : BOOLEAN,
                result : {"pending"}]

\* this.nextMode(mode, type, parent)
NextMode ==
  /\ pc = "nextMode"
  /\ call' = [call EXCEPT !.result = nextMode(call.mode, call.type, call.parent)]
  /\ pc' = "done"
  /\ UNCHANGED <<text, rd, children, err, tree>>

SpecModes == InitModes /\ [][NextMode]_vars

\* ------------------------------------------------------------------ steps

\* The calls of parseElements one iteration at a time.  call is the stack of
\* the calls of parseElements that are open, the root call first; a frame
\* holds the parameters and the locals of a call:
\*   mode, structure   the parameters, mode as the loop has updated it
\*   elements          the elements pushed so far
\*   prevOffset        the offset at the begin of the last iteration
\*   element           the element whose contents are being parsed by the
\*                     call above, if any
\* and what the claims observe of it:
\*   called            the mode with which the call was made
\*   parent            the type of the node whose children the call parses
\*   left              after the element parser of the last iteration: the
\*                     reader as parseElement has left it, if any
\*   widened           whether this.r.widen() of the last iteration is done

\* Headings, nested items, text, blank lines and a line that ends a section
\* without being a heading.
StepTokens ==
  {<<"*", SP>>, <<"*", "*", SP>>, <<"-", SP, "a", NL>>, <<SP, "-", SP>>,
   <<"a", NL>>, <<NL>>, <<"*", "t">>}

\* No call of parseElements is made below this depth.
MaxDepth == 64

InitSteps == InitWith(TextsOf(StepTokens))

Frame(mode, structure, parent) ==
  [mode |-> mode, structure |-> structure, elements |-> <<>>,
   prevOffset |-> -1, element |-> <<>>, called |-> mode, parent |-> parent,
   left |-> <<>>, widened |-> FALSE]

\* The stack with its top frame replaced.
WithTop(stack, f) == [stack EXCEPT ![Len(stack)] = f]

\* A throw out of the loop: the frames stay as they are.
StepThrow(r, stack, msg) ==
  [rd |-> r, call |-> stack, err |-> msg, pc |-> "thrown"]

\* elements.push(element); mode = this.nextMode(mode, type, false), c being
\* the result of the descent into the element of the frame f and left the
\* reader that parseElement had left.
StepPush(c, f, left, stack) ==
  IF c.err # "" THEN StepThrow(c.r, stack, c.err)
  ELSE [rd |-> c.r,
        call |-> WithTop(stack,
                   [f EXCEPT !.elements = Append(@, c.v),
                             !.mode = nextMode(f.mode, c.v.type, FALSE),
                             !.element = <<>>, !.left = <<left>>,
                             !.widened = TRUE]),
        err |-> "", pc |-> "loop"]

\* The structure that parseElements hands down: structure ?? element?.structure
StructureBelow(structure, element) ==
  IF structure # Undefined THEN structure
  ELSE IF "structure" \in DOMAIN element THEN Some(element.structure)
  ELSE Undefined

\* An iteration of the loop after parseElement, e being its result: the
\* contents of a greater element are narrowed to and a call of parseElements
\* is opened; the contents of an element are parsed by parseObjects between
\* narrow and widen.
StepElement(e, f, stack) ==
  IF e.err # "" THEN StepThrow(e.r, WithTop(stack, f), e.err)
  ELSE IF e.v.type \in greaterElements
  THEN [rd |-> narrow(e.r, e.v.contentsBegin, e.v.contentsEnd),
        call |-> Append(WithTop(stack, [f EXCEPT !.element = <<e.v>>,
                                                 !.left = <<e.r>>]),
                        Frame(nextMode(f.mode, e.v.type, TRUE),
                              StructureBelow(f.structure, e.v), e.v.type)),
        err |-> "", pc |-> "loop"]
  ELSE StepPush(parseContents(e.r, e.v, f.mode, f.structure), f, e.r,
                WithTop(stack, f))

\* The begin of an iteration of the loop in the frame f.
StepIteration(r, f, stack) ==
  IF offset(r) = f.prevOffset
  THEN StepThrow(r, stack, "no progress (elements)")
  ELSE StepElement(parseElement(r, f.mode, f.structure),
                   [f EXCEPT !.prevOffset = offset(r), !.left = <<>>,
                             !.widened = FALSE],
                   stack)

\* parse(): this.parseElements('first-section') is called.
ElementsCall ==
  /\ pc = "elements"
  /\ call = <<>>
  /\ call' = <<Frame("first-section", Undefined, "org-data")>>
  /\ pc' = "loop"
  /\ UNCHANGED <<text, rd, children, err, tree>>

\* parseElements: one iteration of while (!this.r.eof()), up to the call
\* of parseElements for the contents of a greater element.
ElementsIteration ==
  /\ pc = "loop"
  /\ ~eof(rd)
  /\ Len(call) < MaxDepth
  /\ \E s \in {StepIteration(rd, call[Len(call)], call)} :
       /\ rd' = s.rd
       /\ call' = s.call
       /\ err' = s.err
       /\ pc' = s.pc
  /\ UNCHANGED <<text, children, tree>>

\* parseElements returns to parseElements: element.children = ...;
\* this.r.widen(); and the rest of the iteration of the caller.
ElementsReturn ==
  /\ pc = "loop"
  /\ eof(rd)
  /\ Len(call) > 1
  /\ \E s \in {StepPush(appendChildren(call[Len(call) - 1].element[1],
                                         Ok(rd, call[Len(call)].elements)),
                          call[Len(call) - 1],
                          call[Len(call) - 1].left[1],
                          SubSeq(call, 1, Len(call) - 1))} :
       /\ rd' = s.rd
       /\ call' = s.call
       /\ err' = s.err
       /\ pc' = s.pc
  /\ UNCHANGED <<text, children, tree>>

\* parseElements returns to parse.
ElementsDone ==
  /\ pc = "loop"
  /\ eof(rd)
  /\ Len(call) = 1
  /\ children' = call[1].elements
  /\ call' = <<>>
  /\ pc' = "wrap"
  /\ UNCHANGED <<text, rd, err, tree>>

NextStep ==
  \/ ParseEmptyLines
  \/ ElementsCall
  \/ ElementsIteration
  \/ ElementsReturn
  \/ ElementsDone
  \/ ReturnOrgData

\* The guards of the actions of NextStep: a step can be taken.  Every step
\* changes pc or call, so that this is ENABLED <<NextStep>>_vars.
StepEnabled ==
  \/ pc \in {"start", "wrap"}
  \/ pc = "elements" /\ call = <<>>
  \/ pc = "loop" /\ (eof(rd) \/ Len(call) < MaxDepth)

\* The parser is one thread that runs until parse returns or throws: weak
\* fairness of NextStep, WF_vars(NextStep), written with the guards in the
\* place of ENABLED.
SpecSteps ==
  /\ InitSteps
  /\ [][NextStep]_vars
  /\ ([]<>(~StepEnabled) \/ []<><<NextStep>>_vars)

\* ------------------------------------------------------------------ trees

Returned == pc = "returned"

Root == tree[1]

\* The greater elements and elements of the subtree of n, n first.
RECURSIVE nodesOf(_)
RECURSIVE nodesOfAll(_)
nodesOf(n) ==
  <<n>> \o (IF n.type \in greaterElements THEN nodesOfAll(n.children) ELSE <<>>)

nodesOfAll(ns) ==
  IF ns = <<>> THEN <<>> ELSE nodesOf(Head(ns)) \o nodesOfAll(Tail(ns))

Nodes == nodesOf(Root)

NodesOfType(type) == {i \in 1..Len(Nodes) : Nodes[i].type = type}

\* ------------------------------------------------------------------ claims

\* C1: on every input the cursor strictly advances between the iterations of
\* the loops of parseElements and parseObjects, so that neither
\* 'no progress (elements)' nor 'no progress' is ever thrown by parse.
C1_NoProgressNeverThrown ==
  err # "no progress (elements)" /\ err # "no progress"

\* C2: when parse returns, the children of the org-data root are at most one
\* section, which is then the first child, followed by headlines only.
C2_RootChildren ==
  Returned =>
    \A i \in 1..Len(Root.children) :
       /\ Root.children[i].type \in {"section", "headline"}
       /\ Root.children[i].type = "section" => i = 1

\* C3: when parse returns, every headline that is a descendant of a headline
\* H has a level strictly greater than the level of H.
C3_HeadlineNesting ==
  Returned =>
    \A i \in NodesOfType("headline") :
       LET below == nodesOfAll(Nodes[i].children)
       IN  \A j \in 1..Len(below) :
              below[j].type = "headline" => below[j].level > Nodes[i].level

\* The contents range of node n lies in the text and is not descending.
RangeInText(n) ==
  0 <= n.contentsBegin /\ n.contentsBegin <= n.contentsEnd
    /\ n.contentsEnd <= Len(text)

\* The contents range of every child of p lies in the contents range of p.
ChildrenInside(p) ==
  p.type \in greaterElements =>
    \A k \in 1..Len(p.children) :
       /\ p.contentsBegin <= p.children[k].contentsBegin
       /\ p.children[k].contentsEnd <= p.contentsEnd

\* C4: when parse returns, every greater element and element N has
\* 0 <= N.contentsBegin <= N.contentsEnd <= text.length, and the contents
\* range of every child lies within the contents range of its parent.
C4_PositionalMonotonicity ==
  Returned =>
    \A i \in 1..Len(Nodes) : RangeInText(Nodes[i]) /\ ChildrenInside(Nodes[i])

\* C4 witness: a returned tree with an item of a plain-list that holds a
\* paragraph with a non-empty contents range, three levels below the root.
C4_Witness ==
  /\ Returned
  /\ \E i \in NodesOfType("item") :
        \E k \in 1..Len(Nodes[i].children) :
           /\ Nodes[i].children[k].type = "paragraph"
           /\ Nodes[i].children[k].contentsBegin
                < Nodes[i].children[k].contentsEnd

\* C5: when parse returns, the children of every greater element are
\* strictly increasing in contentsBegin.
C5_ChildOrdering ==
  Returned =>
    \A i \in 1..Len(Nodes) :
       Nodes[i].type \in greaterElements =>
         \A k \in 1..(Len(Nodes[i].children) - 1) :
            Nodes[i].children[k].contentsBegin
              < Nodes[i].children[k + 1].contentsBegin

\* The objects objs cover the range [b, e): in order their spans are
\* contiguous, start at b and end at e.
Covers(objs, b, e) ==
  IF objs = <<>> THEN b = e
  ELSE /\ objs[1].begin = b
       /\ objs[Len(objs)].end = e
       /\ \A k \in 1..(Len(objs) - 1) : objs[k].end = objs[k + 1].begin

\* C6: the objects of every paragraph and of every headline title cover the
\* parsed range exactly: the text values and the source spans of the links
\* are contiguous, start at the begin of the range and end at its end.
C6_TextCoverage ==
  Returned =>
    /\ \A i \in NodesOfType("paragraph") :
          Covers(Nodes[i].children, Nodes[i].contentsBegin,
                 Nodes[i].contentsEnd)
    /\ \A i \in NodesOfType("headline") :
          Covers(Nodes[i].title, Nodes[i].titleBegin, Nodes[i].titleEnd)

\* The offsets of the text at which "[[" stands.
Opens ==
  {p \in 0..(Len(text) - 2) : text[p + 1] = "[" /\ text[p + 2] = "["}

\* The text holds "[[" and no well-formed bracket link anywhere.
OpensWithoutLink ==
  /\ Opens # {}
  /\ \A p \in Opens : ~linkBracketAt(text, p, Len(text)).ok

\* The objects of the paragraphs and of the headline titles of the tree.
RECURSIVE objectsOf(_)
objectsOf(ns) ==
  IF ns = <<>> THEN <<>>
  ELSE (CASE Head(ns).type = "paragraph" -> Head(ns).children
          [] Head(ns).type = "headline" -> Head(ns).title
          [] OTHER -> <<>>) \o objectsOf(Tail(ns))

\* The byte at offset p is part of the value of a text node.
InTextNode(p) ==
  LET objs == objectsOf(Nodes)
  IN  \E k \in 1..Len(objs) :
         objs[k].type = "text" /\ objs[k].begin <= p /\ p < objs[k].end

\* C7: an unterminated bracket link degrades to text: when the text holds
\* "[[" that starts no well-formed bracket link, parse does not throw but
\* returns a tree in which those bytes are part of a text node.
C7_UnterminatedLinkIsText ==
  (pc \in {"thrown", "returned"} /\ OpensWithoutLink) =>
    /\ Returned
    /\ \A p \in Opens : InTextNode(p) /\ InTextNode(p + 1)

\* C8: every lookup of a list-structure entry by the cursor succeeds and
\* fullItemRe matches wherever itemRe matched: none of the errors of
\* parseList, parseItem and parseListStructure is ever raised.
C8_ListLookupsSucceed ==
  /\ err # "parseList: cannot find item"
  /\ err # "parseItem: fullItemRe failed"
  /\ err # "fullItemRe didn't match"
  /\ err # "TypeError: Cannot read property 'end' of undefined"

\* C9 as claimed: for every plain-list node of a returned tree, top-level or
\* nested, every descriptor d of its structure vector satisfies
\* list.contentsBegin <= d.begin < d.end <= list.contentsEnd.
C9_StructureWithinList ==
  Returned =>
    \A i \in NodesOfType("plain-list") :
       \A k \in 1..Len(Nodes[i].structure) :
          LET d == Nodes[i].structure[k]
          IN  /\ Nodes[i].contentsBegin <= d.begin
              /\ d.begin < d.end
              /\ d.end <= Nodes[i].contentsEnd

\* C9 as amended: for every plain-list node of a returned tree, every
\* descriptor d of its structure vector has d.begin < d.end; a descriptor
\* that begins inside the contents range of the list ends inside it; the
\* other descriptors of the shared vector begin before the list or at or
\* after its end, and one that begins at the end of the list has another
\* indent than the list.
C9_SharedStructure ==
  Returned =>
    \A i \in NodesOfType("plain-list") :
       \A k \in 1..Len(Nodes[i].structure) :
          LET d == Nodes[i].structure[k]
              l == Nodes[i]
          IN  /\ d.begin < d.end
              /\ (l.contentsBegin <= d.begin /\ d.begin < l.contentsEnd)
                    => d.end <= l.contentsEnd
              /\ d.begin = l.contentsEnd => d.indent # l.indent

\* C9 witness: a returned tree with a nested plain-list (a child of an
\* item) whose structure vector holds the descriptor of the enclosing item,
\* which begins before the list, and a descriptor that lies in the list.
C9_Witness ==
  /\ Returned
  /\ \E i \in NodesOfType("item") :
        \E c \in 1..Len(Nodes[i].children) :
           LET l == Nodes[i].children[c]
           IN  /\ l.type = "plain-list"
               /\ \E k \in 1..Len(l.structure) :
                     l.structure[k].begin < l.contentsBegin
               /\ \E k \in 1..Len(l.structure) :
                     /\ l.contentsBegin <= l.structure[k].begin
                     /\ l.structure[k].end <= l.contentsEnd

\* s is an item line at indent 0 without its newline: "- " and letters.
IsItemLine(s) ==
  /\ Len(s) >= 3
  /\ s[1] = "-" /\ s[2] = SP
  /\ \A i \in 3..Len(s) : s[i] \in Letters

\* The text is an item line, k blank lines and an item line.
TwoItemsApart(k) ==
  \E n \in 3..Len(text) :
     /\ n + k + 1 < Len(text)
     /\ IsItemLine(SubSeq(text, 1, n))
     /\ \A i \in (n + 1)..(n + k + 1) : text[i] = NL
     /\ IsItemLine(SubSeq(text, n + k + 2, Len(text)))

\* The elements of the section of a root that holds one section only.
SectionElements ==
  IF Len(Root.children) = 1 /\ Root.children[1].type = "section"
  THEN Root.children[1].children
  ELSE <<>>

\* l is a plain-list of n items.
IsListOf(l, n) ==
  /\ l.type = "plain-list"
  /\ Len(l.children) = n
  /\ \A k \in 1..n : l.children[k].type = "item"

\* C10: list items that one blank line separates belong to one plain-list,
\* and two blank lines end the list: item, blank line, item gives one
\* plain-list of two items; item, two blank lines, item gives two
\* plain-lists of one item each, the contents range of the first item
\* ending at the start of the second list.
C10_BlankLinesInLists ==
  Returned =>
    /\ TwoItemsApart(1) =>
          /\ Len(SectionElements) = 1
          /\ IsListOf(SectionElements[1], 2)
    /\ TwoItemsApart(2) =>
          /\ Len(SectionElements) = 2
          /\ IsListOf(SectionElements[1], 1)
          /\ IsListOf(SectionElements[2], 1)
          /\ SectionElements[1].children[1].contentsEnd
                = SectionElements[2].contentsBegin

\* The offsets at which the lines of the text start.
LinesOfText == {p \in 0..(Len(text) - 1) : p = 0 \/ text[p] = NL}

\* The column of the first character that is not a space of the line at p.
IndentAt(p) == Span(text, p, Len(text), {SP}) - p

\* The line at p is an item line: spaces, "- a" and a newline.
ItemLineAt(p) ==
  LET i == p + IndentAt(p)
  IN  /\ i + 4 <= Len(text)
      /\ text[i + 1] = "-" /\ text[i + 2] = SP
      /\ text[i + 3] = "a" /\ text[i + 4] = NL

\* The text is made of item lines only.
AllItemLines == text # <<>> /\ \A p \in LinesOfText : ItemLineAt(p)

\* The lines before p that are indented less than the line at p: the last
\* of them is the line of the item that is open at p.
Shallower(p) == {q \in LinesOfText : q < p /\ IndentAt(q) < IndentAt(p)}

\* The item nodes of the tree parsed from the item line at p.
ItemsOfLine(p) ==
  {i \in NodesOfType("item") : Nodes[i].contentsBegin = p + IndentAt(p) + 2}

\* The plain-list nodes of the tree that hold the item of the line at p.
ListsOfLine(p) ==
  {l \in NodesOfType("plain-list") :
     \E k \in 1..Len(Nodes[l].children) :
        /\ Nodes[l].children[k].type = "item"
        /\ Nodes[l].children[k].contentsBegin = p + IndentAt(p) + 2}

\* The line at q is the previous line at the indent of the line at p: the
\* lines between them are indented deeper.
PreviousSibling(q, p) ==
  /\ q < p /\ IndentAt(q) = IndentAt(p)
  /\ \A m \in LinesOfText : (q < m /\ m < p) => IndentAt(m) > IndentAt(p)

\* n is a child of p, after the first child of p when p is an item (the
\* paragraph of the item).
NestedIn(n, p) ==
  /\ p.children[1].type = "paragraph"
  /\ \E k \in 2..Len(p.children) : p.children[k] = n

\* C11: in a text of item lines, the item of every line lies in one
\* plain-list whose indent is the column of its bullet; when a line before
\* it is indented less, that list is a child of the item of the last such
\* line, after the paragraph of that item, and does not hold that item;
\* otherwise the list is a child of the section; and the item of the
\* previous line at the same indent, with deeper lines only in between, is
\* in the same list.
C11_NestedLists ==
  (Returned /\ AllItemLines) =>
    \A p \in LinesOfText :
       /\ Cardinality(ItemsOfLine(p)) = 1
       /\ Cardinality(ListsOfLine(p)) = 1
       /\ \A l \in ListsOfLine(p) :
             /\ Nodes[l].indent = IndentAt(p)
             /\ \A i \in ItemsOfLine(p) : Nodes[i].indent = IndentAt(p)
             /\ IF Shallower(p) # {}
                THEN \A i \in ItemsOfLine(MaxOf(Shallower(p))) :
                        /\ NestedIn(Nodes[l], Nodes[i])
                        /\ \A k \in 1..Len(Nodes[l].children) :
                              Nodes[l].children[k] # Nodes[i]
                ELSE \E k \in 1..Len(Root.children[1].children) :
                        Root.children[1].children[k] = Nodes[l]
       /\ \A q \in LinesOfText :
             PreviousSibling(q, p) => ListsOfLine(q) = ListsOfLine(p)

\* C11 witness: a returned tree of a text of item lines in which an item
\* holds a nested plain-list of two items, and an item follows it in the
\* outer list.
C11_Witness ==
  /\ Returned /\ AllItemLines
  /\ \E l \in NodesOfType("plain-list") :
        /\ Len(Nodes[l].children) = 2
        /\ Nodes[l].indent = 0
        /\ \E k \in 2..Len(Nodes[l].children[1].children) :
              /\ Nodes[l].children[1].children[k].type = "plain-list"
              /\ Nodes[l].children[1].children[k].indent = 2
              /\ Len(Nodes[l].children[1].children[k].children) = 2

\* The objects objs and, for the links among them, their children.
RECURSIVE withLinkChildren(_)
withLinkChildren(objs) ==
  IF objs = <<>> THEN <<>>
  ELSE <<Head(objs)>>
         \o (IF Head(objs).type = "link"
             THEN withLinkChildren(Head(objs).children)
             ELSE <<>>)
         \o withLinkChildren(Tail(objs))

\* Every object that parseObjects emitted into the tree.
AllObjects == withLinkChildren(objectsOf(Nodes))

\* C12: no text node whose value is whitespace only is emitted by
\* parseObjects, be it the text after the last object or the text before
\* or between objects.
C12_NoBlankText ==
  Returned =>
    \A k \in 1..Len(AllObjects) :
       AllObjects[k].type = "text" => ~IsBlankString(AllObjects[k].value)

\* C13: the children of a bracket link are the objects of its description,
\* parsed under a restriction that forbids links: parse does not throw in a
\* description, whatever it holds, and in a returned tree the children of
\* a link are text nodes that lie in the span of the link.
C13_LinkDescription ==
  /\ err # "TypeError: restriction.has is not a function"
  /\ Returned =>
        \A k \in 1..Len(AllObjects) :
           AllObjects[k].type = "link" =>
             \A c \in 1..Len(AllObjects[k].children) :
                /\ AllObjects[k].children[c].type = "text"
                /\ AllObjects[k].begin <= AllObjects[k].children[c].begin
                /\ AllObjects[k].children[c].end <= AllObjects[k].end

\* C14: every narrow is matched by one widen on every exit path, normal or
\* by a thrown error: the stack of narrows of the reader is empty whenever
\* parse returns or throws.
C14_NarrowsBalanced ==
  pc \in {"wrap", "returned", "thrown"} => rd.narrows = <<>>

\* The structure vector v has begin <= end in every descriptor, descriptors
\* that are disjoint or nested, and is strictly ascending by begin.
WellFormedStructure(v) ==
  /\ \A k \in 1..Len(v) : v[k].begin <= v[k].end
  /\ \A a, b \in 1..Len(v) :
        v[a].begin < v[b].begin =>
          (v[a].end <= v[b].begin \/ v[b].end <= v[a].end)
  /\ \A k \in 1..(Len(v) - 1) : v[k].begin < v[k + 1].begin

\* The reader at the first element of the first section: the window of
\* parseElements is the contents range of the section.
FirstElementReader ==
  narrow(rd, parseFirstSection(rd).v.contentsBegin,
         parseFirstSection(rd).v.contentsEnd)

\* parseElement calls parseListStructure at the first element of the text:
\* the reader is not at a heading and is at an item.
ScansFirstElement ==
  /\ pc = "elements"
  /\ ~eof(rd)
  /\ ~atHeading(FirstElementReader)
  /\ itemRe(FirstElementReader).ok

\* The result of that call.
FirstScan == parseListStructure(FirstElementReader)

\* C15: every structure vector that parseListStructure returns has
\* begin <= end in every descriptor, has descriptors that are pairwise
\* disjoint or nested, and is sorted ascending by begin with no two
\* descriptors of one begin.  The vectors are the one scanned at the first
\* element of the text, when it is an item, and the ones the plain-lists
\* of a returned tree carry.
C15_StructureWellFormed ==
  /\ (ScansFirstElement /\ FirstScan.err = "")
        => WellFormedStructure(FirstScan.v)
  /\ Returned =>
        \A i \in NodesOfType("plain-list") :
           WellFormedStructure(Nodes[i].structure)

\* C15 witness: the scan at the first element returns a vector with an
\* item nested in an item and an item that follows both.
C15_Witness ==
  /\ ScansFirstElement /\ FirstScan.err = ""
  /\ \E a, b, c \in 1..Len(FirstScan.v) :
        LET v == FirstScan.v
        IN  /\ v[a].begin < v[b].begin /\ v[b].end <= v[a].end
            /\ v[a].end <= v[c].begin

\* The line at p is a heading line: stars followed by a space or a tab.
HeadingLineAt(p) ==
  p \in LinesOfText /\ starsThen(text, p, Len(text), {SP, TAB})

\* C16: the contents of every section end at the end of the window, which
\* is the end of the contents of its parent, or at the first following line
\* that is a heading line, never at a line that is no heading (as it would
\* if the test that ends a section took a line that the other tests of a
\* heading do not take).
C16_SectionEndsAtHeading ==
  Returned =>
    \A i \in 1..Len(Nodes) :
       Nodes[i].type \in greaterElements =>
         \A k \in 1..Len(Nodes[i].children) :
            Nodes[i].children[k].type = "section" =>
              \/ Nodes[i].children[k].contentsEnd = Nodes[i].contentsEnd
              \/ HeadingLineAt(Nodes[i].children[k].contentsEnd)

\* The dispatch of parseElement at the first element of the text falls
\* through to parseParagraph: the reader is not at the end of its window,
\* not at a heading and not at an item.
ParagraphAtFirstElement ==
  /\ pc = "elements"
  /\ ~eof(rd)
  /\ ~eof(FirstElementReader)
  /\ ~atHeading(FirstElementReader)
  /\ ~itemRe(FirstElementReader).ok

\* The result of that call.
FirstParagraph == parseParagraph(FirstElementReader)

\* C17: whenever the dispatch falls through to parseParagraph with the
\* cursor not at the end of the window, parseParagraph returns a paragraph
\* and leaves the cursor strictly after its starting offset, at or after
\* the next separator (or the end of the window) and past the blank lines
\* there, whatever the line at the cursor.
C17_ParagraphProgress ==
  ParagraphAtFirstElement =>
    /\ FirstParagraph.err = ""
    /\ FirstParagraph.v.type = "paragraph"
    /\ offset(FirstParagraph.r) > offset(FirstElementReader)
    /\ offset(FirstParagraph.r) >= FirstParagraph.v.contentsEnd
    /\ eof(FirstParagraph.r) \/ ~IsBlankString(line(FirstParagraph.r))

\* The descend transitions of the table: by the type of the child, the
\* section having two rows.
DescendTable(mode, type) ==
  CASE type = "headline" -> "section"
    [] type = "section" /\ mode = "first-section" -> "top-comment"
    [] type = "section" /\ mode # "first-section" -> "planning"
    [] type = "inlinetask" -> "planning"
    [] type = "plain-list" -> "item"
    [] type = "property-drawer" -> "node-property"
    [] type = "table" -> "table-row"
    [] OTHER -> "null"

\* The sibling transitions of the table: by the mode.
SiblingTable(mode, type) ==
  CASE mode = "item" -> "item"
    [] mode = "node-property" -> "node-property"
    [] mode = "planning" /\ type = "planning" -> "property-drawer"
    [] mode = "table-row" -> "table-row"
    [] mode = "top-comment" /\ type = "comment" -> "property-drawer"
    [] OTHER -> "null"

\* C18: for every mode, every type of child and both values of parent,
\* nextMode(mode, type, parent) is the entry of the transition tables: the
\* descend table when parent holds, the sibling table otherwise.
C18_NextModeTable ==
  pc = "done" =>
    call.result = IF call.parent
                  THEN DescendTable(call.mode, call.type)
                  ELSE SiblingTable(call.mode, call.type)

\* C18 witness: nextMode has been called in the mode first-section to
\* descend into a section, and has returned top-comment.
C18_Witness ==
  /\ pc = "done"
  /\ call.mode = "first-section" /\ call.type = "section" /\ call.parent
  /\ call.result = "top-comment"

\* C19 as claimed: parseListStructure returns without moving the cursor:
\* the offset of the reader when it returns is the offset at which it was
\* called.
C19_ScanKeepsCursor ==
  (ScansFirstElement /\ FirstScan.err = "") =>
    offset(FirstScan.r) = offset(FirstElementReader)

\* The plain-list that parseElement returns at the first element.
FirstList == parseElementList(FirstElementReader, Undefined)

\* C19 as amended: parseListStructure leaves the cursor after the lines it
\* has scanned, at or after the end of every descriptor; parseElement, which
\* called it, resets the cursor to the offset of the call, so that
\* parseList finds the first item of the list at the cursor: the list begins
\* at that offset, and the cursor is left at the end of the list.
C19_CallerResetsCursor ==
  (ScansFirstElement /\ FirstScan.err = "") =>
    /\ offset(FirstScan.r) > offset(FirstElementReader)
    /\ \A k \in 1..Len(FirstScan.v) : FirstScan.v[k].end <= offset(FirstScan.r)
    /\ FirstList.err = ""
    /\ FirstList.v.type = "plain-list"
    /\ FirstList.v.contentsBegin = offset(FirstElementReader)
    /\ FirstList.v.structure = FirstScan.v
    /\ offset(FirstList.r) = FirstList.v.contentsEnd

\* C19 witness: the scan at the first element has recorded two items and
\* has left the cursor after the second, and the list begins at the offset
\* of the call.
C19_Witness ==
  /\ ScansFirstElement /\ FirstScan.err = ""
  /\ Len(FirstScan.v) = 2
  /\ offset(FirstScan.r) > FirstScan.v[2].begin
  /\ FirstList.err = ""
  /\ FirstList.v.contentsBegin = offset(FirstElementReader)

\* The entries of the vector v that begin at pos.
EntriesAt(v, pos) == {k \in 1..Len(v) : v[k].begin = pos}

\* The maximal chain of the entries of v of one indent that starts with the
\* entry at pos: each next entry begins where the entry before it ends.
RECURSIVE ChainFrom(_, _, _)
ChainFrom(v, indent, pos) ==
  LET N == {k \in EntriesAt(v, pos) : v[k].indent = indent}
  IN  IF N = {} THEN <<>>
      ELSE <<v[MinOf(N)]>> \o ChainFrom(v, indent, v[MinOf(N)].end)

\* The chain of the plain-list l: it starts with the entry at the begin of
\* the list.
ChainOf(l) ==
  ChainFrom(l.structure,
            l.structure[MinOf(EntriesAt(l.structure, l.contentsBegin))].indent,
            l.contentsBegin)

\* C20: every plain-list begins at an entry e0 of its structure, has the
\* indent of e0 and ends at the end of the last entry of the maximal chain
\* of e0; its children are the items of the entries of the chain, in order,
\* each with the indent of the list and the contents range from the offset
\* after its bullet to the end of its entry; and parseList leaves the cursor
\* at the end of the list.
C20_ListChain ==
  /\ Returned =>
        \A i \in NodesOfType("plain-list") :
           LET l == Nodes[i]
           IN  /\ EntriesAt(l.structure, l.contentsBegin) # {}
               /\ l.indent = ChainOf(l)[1].indent
               /\ l.contentsEnd = ChainOf(l)[Len(ChainOf(l))].end
               /\ Len(l.children) = Len(ChainOf(l))
               /\ \A k \in 1..Len(l.children) :
                     /\ l.children[k].type = "item"
                     /\ l.children[k].indent = l.indent
                     /\ l.children[k].contentsBegin
                          = ChainOf(l)[k].begin + ChainOf(l)[k].indent
                              + Len(ChainOf(l)[k].bullet)
                     /\ l.children[k].contentsEnd = ChainOf(l)[k].end
  /\ (ScansFirstElement /\ FirstList.err = "") =>
        offset(FirstList.r) = FirstList.v.contentsEnd

\* C20 witness: a returned tree with a plain-list of two items whose
\* structure holds a third entry, of another indent, that is not in the
\* chain of the list.
C20_Witness ==
  /\ Returned
  /\ \E i \in NodesOfType("plain-list") :
        /\ Len(Nodes[i].children) = 2
        /\ Len(ChainOf(Nodes[i])) = 2
        /\ Len(Nodes[i].structure) > 2

\* The frame of the call of parseElements that is running.
Top == call[Len(call)]

\* C21: when parseElements has widened after the parse of the contents of
\* an element, the reader is as the element parser had left it: the same
\* offset, the same window and the same stack of narrows.  In the
\* first-section case parseElement itself returns with the whole text
\* visible and the cursor where parseSection has put it inside the window,
\* at the end of the section.
C21_DescentKeepsCursor ==
  /\ (pc = "loop" /\ Top.widened) =>
        /\ rd.offset = Top.left[1].offset
        /\ rd.left = Top.left[1].left
        /\ rd.right = Top.left[1].right
        /\ rd.narrows = Top.left[1].narrows
  /\ \A k \in 1..Len(call) :
        (/\ call[k].mode = "first-section"
         /\ call[k].element # <<>>
         /\ call[k].element[1].type = "section") =>
           /\ call[k].left[1].offset = call[k].element[1].contentsEnd
           /\ call[k].left[1].left = 0
           /\ call[k].left[1].right = Len(text)
           /\ call[k].left[1].narrows = <<>>

\* C21 witness: parseElements has widened after a paragraph whose contents
\* end before the cursor, the blank lines after it being consumed, in a call
\* that has parsed the contents of a plain-list before.
C21_Witness ==
  /\ pc = "loop"
  /\ Top.widened
  /\ Len(Top.elements) >= 2
  /\ Top.elements[1].type = "plain-list"
  /\ Top.elements[1].children # <<>>
  /\ Top.elements[Len(Top.elements)].type = "paragraph"
  /\ Top.elements[Len(Top.elements)].contentsEnd < rd.offset

\* The window of the k-th open call of parseElements: the window of the
\* reader for the running call, and for the others the window that the
\* narrow of the call above has saved.
WindowOf(k) ==
  IF k = Len(call) THEN <<rd.left, rd.right>>
  ELSE <<rd.narrows[k].prevLeft, rd.narrows[k].prevRight>>

\* parse has returned a tree or thrown.
Terminated == pc \in {"returned", "thrown"}

\* While parseElements runs: the window of a call lies in the window of its
\* caller, no two open calls have the same window and the same mode, there
\* are at most as many open calls as the text has characters, and two more,
\* and the cursor of the running call is past the offset of its last
\* iteration or the call is about to throw 'no progress (elements)'.
BoundedDescent ==
  pc = "loop" =>
    /\ Len(rd.narrows) = Len(call) - 1
    /\ \A k \in 2..Len(call) :
          /\ WindowOf(k - 1)[1] <= WindowOf(k)[1]
          /\ WindowOf(k)[2] <= WindowOf(k - 1)[2]
    /\ \A j, k \in 1..Len(call) :
          (j < k) => <<WindowOf(j), call[j].called>>
                       # <<WindowOf(k), call[k].called>>
    /\ Len(call) <= Len(text) + 2
    /\ Top.prevOffset <= rd.offset

\* C22: every run of parse ends, with a tree returned or an error thrown,
\* and on the way the open calls of parseElements are bounded by the length
\* of the text, with nested windows and no (window, mode) pair twice.
C22_Terminates == []BoundedDescent /\ <>Terminated

\* C22 witness: parse has returned a tree in which an item holds a
\* plain-list, so that six calls of parseElements were open at once.
C22_Witness ==
  /\ Returned
  /\ \E i \in NodesOfType("item") :
        \E k \in 1..Len(Nodes[i].children) :
           /\ Nodes[i].children[k].type = "plain-list"
           /\ Nodes[i].children[k].children # <<>>

\* The modes that the claim says are reached.
ReachedModes ==
  {"first-section", "top-comment", "section", "planning", "item", "null"}

\* The types of the nodes that the element parsers emit.
EmittedTypes == {"headline", "section", "plain-list", "item", "paragraph"}

\* C23: in every open call of parseElements the mode of the call and the
\* mode of its next parseElement are among first-section, top-comment,
\* section, planning, item and null; the mode is first-section only in the
\* root call before its first element is pushed; the mode is item exactly
\* in the calls that parse the children of a plain-list; and every element
\* pushed has one of the types headline, section, plain-list, item and
\* paragraph.
C23_ModesReached ==
  \A k \in 1..Len(call) :
     /\ call[k].called \in ReachedModes
     /\ call[k].mode \in ReachedModes
     /\ (call[k].called = "first-section") <=> (k = 1)
     /\ (call[k].mode = "first-section") =>
           (k = 1 /\ call[k].elements = <<>>)
     /\ (call[k].called = "item") <=> (call[k].parent = "plain-list")
     /\ (call[k].mode = "item") <=> (call[k].parent = "plain-list")
     /\ \A n \in 1..Len(call[k].elements) :
           call[k].elements[n].type \in EmittedTypes
     /\ (call[k].element # <<>>) => call[k].element[1].type \in EmittedTypes

\* C23 witness: the open calls have the modes first-section, section,
\* planning, item and null, from the root call down to the contents of an
\* item of a list in the section of a headline.
C23_Witness ==
  /\ pc = "loop"
  /\ Len(call) = 5
  /\ call[1].mode = "first-section"
  /\ call[2].mode = "section"
  /\ call[3].mode = "planning"
  /\ call[4].mode = "item"
  /\ call[5].mode = "null"
  /\ call[4].elements # <<>>

====
